---- MODULE Spec2Model ----
(***************************************************************************)
(* Model of src/src/utils/websocketClient.ts: the resolution of the chat   *)
(* WebSocket endpoint (getWebSocketUrl) and the wiring of the socket       *)
(* lifecycle events to the caller's callbacks (createChatWebSocket,        *)
(* closeWebSocket).                                                        *)
(*                                                                         *)
(* A JavaScript string is modelled as the sequence of its characters, so   *)
(* that concatenation, the anchored regular expressions /^https:/ and      *)
(* /^http:/ and the strict comparisons of the source are computed and not  *)
(* assumed.                                                                *)
(***************************************************************************)
EXTENDS Integers, Sequences, FiniteSets, TLC

VARIABLES
    window,     \* the global `window`: defined or not, and its location
    process,    \* the global `process`: present or not, its env, SERVER_BASE_URL
    url,        \* the value returned by the last call of getWebSocketUrl()
    resolved,   \* TRUE once getWebSocketUrl() has returned in this run
    sockets,    \* the WebSocket objects constructed so far, in order of creation
    createCalls, \* the number of calls of createChatWebSocket so far
    lastOp,     \* the last call or event: what it was, and its handle argument
    closedWhileConnecting \* handles closeWebSocket was called on while connecting

urlVars == <<window, process, url, resolved>>

socketVars == <<sockets, createCalls, lastOp, closedWhileConnecting>>

vars == <<window, process, url, resolved, sockets, createCalls, lastOp,
          closedWhileConnecting>>

----------------------------------------------------------------------------
(* Character strings used by the source and by the inputs.                 *)

sHttps == <<"h","t","t","p","s",":">>
sHttp == <<"h","t","t","p",":">>
sWss == <<"w","s","s",":">>
sWs == <<"w","s",":">>
sFile == <<"f","i","l","e",":">>
sSlashes == <<"/","/">>
sColon == <<":">>
sEmpty == <<>>
sLocalhost == <<"l","o","c","a","l","h","o","s","t">>
sIp4Loopback == <<"1","2","7",".","0",".","0",".","1">>
sIp6Loopback == <<":",":","1">>
sIp6Bracketed == <<"[",":",":","1","]">>
sExample == <<"e","x","a","m","p","l","e",".","c","o","m">>
sApiExample == <<"a","p","i",".">> \o sExample
sPort3000 == <<"3","0","0","0">>
sPort8001 == <<"8","0","0","1">>
sWsChat == <<"/","w","s","/","c","h","a","t">>
sSecureApiBase == sHttps \o sSlashes \o sApiExample
sSecureApiEndpoint == sWss \o sSlashes \o sApiExample \o sWsChat
sDefaultEndpoint == sWs \o sSlashes \o sLocalhost \o sColon \o sPort8001 \o sWsChat

\* const DEFAULT_SERVER_BASE_URL = 'http://localhost:8001';
DEFAULT_SERVER_BASE_URL == sHttp \o sSlashes \o sLocalhost \o sColon \o sPort8001

----------------------------------------------------------------------------
(* String primitives of the JavaScript runtime used by the source.         *)

\* s begins with the literal p (what the anchored pattern /^p/ tests).
StartsWith(s, p) == Len(s) >= Len(p) /\ SubSeq(s, 1, Len(p)) = p

\* String.prototype.replace(/^p/, r): the first (only possible) match of the
\* anchored literal pattern is replaced, a string without a match is returned
\* unchanged.
ReplacePrefix(s, p, r) ==
    IF StartsWith(s, p) THEN r \o SubSeq(s, Len(p) + 1, Len(s)) ELSE s

----------------------------------------------------------------------------
(* The helpers of the endpoint resolution.                                 *)

\* Faulty variant: `??` instead of `||`, an empty SERVER_BASE_URL is used as it is.
getServerBaseUrlNullish(proc) ==
    IF proc.present /\ proc.hasEnv /\ proc.SERVER_BASE_URL # {}
    THEN CHOOSE v \in proc.SERVER_BASE_URL : TRUE
    ELSE DEFAULT_SERVER_BASE_URL

\* env?.SERVER_BASE_URL || DEFAULT_SERVER_BASE_URL, with env = process?.env.
\* SERVER_BASE_URL is the set of its values: empty when the key is undefined.
\* `||` takes the default for every falsy left side: undefined and ''.
getServerBaseUrl(proc) ==
    IF proc.present /\ proc.hasEnv
       /\ proc.SERVER_BASE_URL # {} /\ proc.SERVER_BASE_URL # {sEmpty}
    THEN CHOOSE v \in proc.SERVER_BASE_URL : TRUE
    ELSE DEFAULT_SERVER_BASE_URL

\* Faulty variant: a secure base URL is downgraded to the plain scheme.
toWebSocketBaseUrlInsecure(baseUrl) ==
    ReplacePrefix(ReplacePrefix(baseUrl, sHttps, sWs), sHttp, sWs)

\* baseUrl.replace(/^https:/, 'wss:').replace(/^http:/, 'ws:')
toWebSocketBaseUrl(baseUrl) ==
    ReplacePrefix(ReplacePrefix(baseUrl, sHttps, sWss), sHttp, sWs)

\* Faulty variant: the IPv6 loopback is forgotten.
isLoopbackHostNoIp6(hostname) ==
    hostname = sLocalhost \/ hostname = sIp4Loopback

\* hostname === 'localhost' || hostname === '127.0.0.1' || hostname === '::1'
isLoopbackHost(hostname) ==
    hostname = sLocalhost \/ hostname = sIp4Loopback \/ hostname = sIp6Loopback

\* Faulty variant: only a plain-http page gets ws:, every other protocol gets wss:.
pageProtocolHttpOnly(loc) == IF loc.protocol = sHttp THEN sWs ELSE sWss

\* window.location.protocol === 'https:' ? 'wss:' : 'ws:'
pageProtocol(loc) == IF loc.protocol = sHttps THEN sWss ELSE sWs

\* toWebSocketBaseUrl(getServerBaseUrl()) followed by `${wsBaseUrl}/ws/chat`:
\* the loopback branch and the server-side fallback are the same two lines.
baseUrlEndpoint(proc) == toWebSocketBaseUrl(getServerBaseUrl(proc)) \o sWsChat

\* export function getWebSocketUrl(): string
getWebSocketUrl(win, proc) ==
    IF win.defined
    THEN IF isLoopbackHost(win.location.hostname)
         THEN baseUrlEndpoint(proc)
         ELSE pageProtocol(win.location) \o sSlashes \o win.location.host \o sWsChat
    ELSE baseUrlEndpoint(proc)

----------------------------------------------------------------------------
(* The inputs of the resolution: the execution contexts and the            *)
(* configurations of the process environment.                              *)

\* location.host is the hostname, followed by ":" and the port when the
\* location has one.
HostOf(hostname, port) ==
    IF port = sEmpty THEN hostname ELSE hostname \o sColon \o port

PageProtocols == {sHttp, sHttps, sFile}

PageHostnames ==
    {sLocalhost, sIp4Loopback, sIp6Loopback, sIp6Bracketed, sExample, sApiExample}

PagePorts == {sEmpty, sPort3000}

Locations ==
    {[protocol |-> p, hostname |-> h, host |-> HostOf(h, q)] :
        p \in PageProtocols, h \in PageHostnames, q \in PagePorts}

\* Server-side execution: `typeof window` is 'undefined'.
NoWindow ==
    [defined |-> FALSE,
     location |-> [protocol |-> sEmpty, hostname |-> sEmpty, host |-> sEmpty]]

Windows == {NoWindow} \cup {[defined |-> TRUE, location |-> l] : l \in Locations}

BaseSchemes == {sHttps, sHttp, sWss, sWs}

BaseHosts == {sApiExample, sLocalhost \o sColon \o sPort8001}

\* The values SERVER_BASE_URL is configured with, the empty string included.
BaseUrls ==
    {sEmpty} \cup {s \o sSlashes \o h : s \in BaseSchemes, h \in BaseHosts}

NoProcess == [present |-> FALSE, hasEnv |-> FALSE, SERVER_BASE_URL |-> {}]

NoEnv == [present |-> TRUE, hasEnv |-> FALSE, SERVER_BASE_URL |-> {}]

EnvOf(values) == [present |-> TRUE, hasEnv |-> TRUE, SERVER_BASE_URL |-> values]

Processes == {NoProcess, NoEnv, EnvOf({})} \cup {EnvOf({b}) : b \in BaseUrls}

----------------------------------------------------------------------------
(* JSON.stringify of a ChatCompletionRequest.                              *)
(*                                                                         *)
(* A request is the sequence of its own properties in insertion order. A   *)
(* property holds a string, the messages array, or undefined. The JSON     *)
(* text is the sequence of its tokens: the punctuation marks and the       *)
(* contents of the string literals.                                        *)

StringField(k, s) == [key |-> k, kind |-> "string", text |-> s, items |-> <<>>]

UndefinedField(k) == [key |-> k, kind |-> "undefined", text |-> "", items |-> <<>>]

MessagesField(ms) == [key |-> "messages", kind |-> "array", text |-> "", items |-> ms]

\* A string literal of the JSON text.
Quoted(s) == <<"\"", s, "\"">>

\* A ChatMessage: {"role":...,"content":...}
StringifyMessage(m) ==
    <<"{">> \o Quoted("role") \o <<":">> \o Quoted(m.role) \o <<",">>
            \o Quoted("content") \o <<":">> \o Quoted(m.content) \o <<"}">>

RECURSIVE StringifyItems(_)
StringifyItems(ms) ==
    IF ms = <<>> THEN <<>>
    ELSE StringifyMessage(Head(ms))
         \o (IF Tail(ms) = <<>> THEN <<>> ELSE <<",">>)
         \o StringifyItems(Tail(ms))

StringifyValue(f) ==
    IF f.kind = "string" THEN Quoted(f.text)
    ELSE <<"[">> \o StringifyItems(f.items) \o <<"]">>

\* The properties JSON.stringify serializes: those whose value is not undefined.
RECURSIVE Serializable(_)
Serializable(fields) ==
    IF fields = <<>> THEN <<>>
    ELSE (IF Head(fields).kind = "undefined" THEN <<>> ELSE <<Head(fields)>>)
         \o Serializable(Tail(fields))

RECURSIVE StringifyFields(_)
StringifyFields(fields) ==
    IF fields = <<>> THEN <<>>
    ELSE Quoted(Head(fields).key) \o <<":">> \o StringifyValue(Head(fields))
         \o (IF Tail(fields) = <<>> THEN <<>> ELSE <<",">>)
         \o StringifyFields(Tail(fields))

\* JSON.stringify(request)
JSONstringify(request) ==
    <<"{">> \o StringifyFields(Serializable(request)) \o <<"}">>

UserHi == [role |-> "user", content |-> "hi"]

AssistantYo == [role |-> "assistant", content |-> "yo"]

\* A request with the two required properties only.
RequestMinimal ==
    <<StringField("repo_url", "https://github.com/o/r"), MessagesField(<<UserHi>>)>>

\* A request with optional properties, one of them explicitly undefined.
RequestWithOptions ==
    <<StringField("repo_url", "https://github.com/o/r"),
      MessagesField(<<UserHi, AssistantYo>>),
      UndefinedField("filePath"),
      StringField("token", "t0k"),
      StringField("provider", "openai")>>

Requests == {RequestMinimal, RequestWithOptions}

----------------------------------------------------------------------------
(* The WebSocket objects and the callbacks wired to them.                  *)

\* Most WebSocket objects of one run.
MaxHandles == 1

\* Most inbound frames the transport delivers in one run, over all handles.
MaxFrames == 2

\* The payloads of the inbound text frames.
Payloads == {"foo", "bar"}

\* The null handle.
Null == 0

\* The Event of an error on handle h.
ErrorEvent(h) == [type |-> "error", target |-> h]

\* new WebSocket(u), with the callbacks of createChatWebSocket(request, ...)
\* to be attached: the object starts connecting, nothing is sent or received,
\* and no callback has run.
NewSocket(u, request) ==
    [url |-> u,
     request |-> request,
     readyState |-> "CONNECTING",
     openEvents |-> 0,
     sent |-> <<>>,
     delivered |-> <<>>,
     errorEvents |-> <<>>,
     closeRequested |-> 0,
     onMessageArgs |-> <<>>,
     onErrorArgs |-> <<>>,
     onCloseCalls |-> 0]

\* ws.send(data): an open socket transmits the frame; a closing or closed one
\* discards it. (On a connecting socket send() throws; the open handler, its
\* only caller, never runs on one.)
wsSend(socks, h, data) ==
    IF socks[h].readyState = "OPEN"
    THEN [socks EXCEPT ![h].sent = Append(@, data)]
    ELSE socks

\* ws.close(): nothing on a closing or closed socket; otherwise the closing
\* handshake starts (a connecting socket abandons its connection attempt)
\* and the socket is closing.
wsClose(socks, h) ==
    IF socks[h].readyState \in {"CLOSING", "CLOSED"}
    THEN socks
    ELSE [socks EXCEPT ![h].readyState = "CLOSING", ![h].closeRequested = @ + 1]

\* Faulty variant: a field is injected into the request that is sent.
onopenInjectsField(socks, h) ==
    wsSend(socks, h,
           JSONstringify(Append(socks[h].request, StringField("stream", "true"))))

\* ws.onopen = () => { ws.send(JSON.stringify(request)); }
onopen(socks, h) == wsSend(socks, h, JSONstringify(socks[h].request))

\* Faulty variant: the newest message is put in front of the earlier ones.
onmessageReorders(socks, h, data) ==
    [socks EXCEPT ![h].onMessageArgs = <<data>> \o @]

\* ws.onmessage = (event) => { onMessage(event.data); }
onmessage(socks, h, data) ==
    [socks EXCEPT ![h].onMessageArgs = Append(@, data)]

\* Faulty variant: the error handler reports the close as well.
onerrorAlsoCloses(socks, h, error) ==
    [socks EXCEPT ![h].onErrorArgs = Append(@, error), ![h].onCloseCalls = @ + 1]

\* Faulty variant: the error handler opens a new socket for the same request.
onerrorReconnects(socks, h, error) ==
    Append([socks EXCEPT ![h].onErrorArgs = Append(@, error)],
           NewSocket(socks[h].url, socks[h].request))

\* ws.onerror = (error) => { onError(error); }
onerror(socks, h, error) ==
    [socks EXCEPT ![h].onErrorArgs = Append(@, error)]

\* ws.onclose = () => { onClose(); }
onclose(socks, h) == [socks EXCEPT ![h].onCloseCalls = @ + 1]

\* createChatWebSocket(request, onMessage, onError, onClose): constructs the
\* socket for the resolved URL, attaches the four handlers and returns it.
createChatWebSocket(socks, request) ==
    Append(socks, NewSocket(getWebSocketUrl(window, process), request))

\* Faulty variant: no test of the ready state.
closeWebSocketAnyState(socks, ws) ==
    IF ws # Null THEN wsClose(socks, ws) ELSE socks

\* Faulty variant: every socket that is not closed yet is closed.
closeWebSocketUnlessClosed(socks, ws) ==
    IF ws # Null /\ socks[ws].readyState # "CLOSED" THEN wsClose(socks, ws) ELSE socks

\* if (ws && ws.readyState === WebSocket.OPEN) { ws.close(); }
closeWebSocket(socks, ws) ==
    IF ws # Null /\ socks[ws].readyState = "OPEN" THEN wsClose(socks, ws) ELSE socks

----------------------------------------------------------------------------
(* The endpoint resolution as a state machine: one call of                 *)
(* getWebSocketUrl() in any execution context and configuration.           *)

\* No call and no event yet.
NoOp == [op |-> "none", h |-> Null]

InitUrl ==
    /\ window \in Windows
    /\ process \in Processes
    /\ url = sEmpty
    /\ resolved = FALSE
    /\ sockets = <<>>
    /\ createCalls = 0
    /\ lastOp = NoOp
    /\ closedWhileConnecting = {}

Resolve ==
    /\ url' = getWebSocketUrl(window, process)
    /\ resolved' = TRUE
    /\ UNCHANGED <<window, process>>
    /\ UNCHANGED socketVars

NextUrl == Resolve

SpecUrl == InitUrl /\ [][NextUrl]_vars

----------------------------------------------------------------------------
(* The socket lifecycle as a state machine: the calls of the two exported  *)
(* functions by the caller, and the events of the transport, which run the *)
(* handlers createChatWebSocket attached. An event and its handlers are    *)
(* one task of the event loop, hence one step.                             *)

\* The execution contexts the sockets are created in.
SocketContexts ==
    {[window |-> NoWindow, process |-> NoProcess],
     [window |-> [defined |-> TRUE,
                  location |-> [protocol |-> sHttps, hostname |-> sExample,
                                host |-> sExample]],
      process |-> EnvOf({sSecureApiBase})]}

Handles == 1..Len(sockets)

RECURSIVE FramesDelivered(_, _)
FramesDelivered(socks, n) ==
    IF n = 0 THEN 0 ELSE Len(socks[n].delivered) + FramesDelivered(socks, n - 1)

Init ==
    /\ \E c \in SocketContexts : window = c.window /\ process = c.process
    /\ url = sEmpty
    /\ resolved = FALSE
    /\ sockets = <<>>
    /\ createCalls = 0
    /\ lastOp = NoOp
    /\ closedWhileConnecting = {}

\* The caller calls createChatWebSocket(request, onMessage, onError, onClose).
CreateChatWebSocket ==
    /\ Len(sockets) < MaxHandles
    /\ \E request \in Requests : sockets' = createChatWebSocket(sockets, request)
    /\ createCalls' = createCalls + 1
    /\ lastOp' = [op |-> "createChatWebSocket", h |-> Null]
    /\ UNCHANGED <<urlVars, closedWhileConnecting>>

\* The caller calls closeWebSocket(ws), with null or a handle it holds.
CloseWebSocket ==
    \E ws \in {Null} \cup Handles :
        /\ sockets' = closeWebSocket(sockets, ws)
        /\ lastOp' = [op |-> "closeWebSocket", h |-> ws]
        /\ closedWhileConnecting' =
             IF ws # Null /\ sockets[ws].readyState = "CONNECTING"
             THEN closedWhileConnecting \cup {ws}
             ELSE closedWhileConnecting
        /\ UNCHANGED <<urlVars, createCalls>>

\* The connection is established: the socket is open and its open event fires.
TransportOpen ==
    \E h \in Handles :
        /\ sockets[h].readyState = "CONNECTING"
        /\ sockets' = onopen([sockets EXCEPT ![h].readyState = "OPEN",
                                              ![h].openEvents = @ + 1], h)
        /\ lastOp' = [op |-> "event", h |-> Null]
        /\ UNCHANGED <<urlVars, createCalls, closedWhileConnecting>>

\* A text frame arrives on an open socket: its message event fires.
TransportMessage ==
    \E h \in Handles, data \in Payloads :
        /\ sockets[h].readyState = "OPEN"
        /\ FramesDelivered(sockets, Len(sockets)) < MaxFrames
        /\ sockets' = onmessage([sockets EXCEPT ![h].delivered = Append(@, data)],
                                h, data)
        /\ lastOp' = [op |-> "event", h |-> Null]
        /\ UNCHANGED <<urlVars, createCalls, closedWhileConnecting>>

\* The peer starts the closing handshake: the open socket is closing.
PeerClose ==
    \E h \in Handles :
        /\ sockets[h].readyState = "OPEN"
        /\ sockets' = [sockets EXCEPT ![h].readyState = "CLOSING"]
        /\ lastOp' = [op |-> "event", h |-> Null]
        /\ UNCHANGED <<urlVars, createCalls, closedWhileConnecting>>

\* The closing handshake completes: the socket is closed and its close event
\* fires.
TransportClosed ==
    \E h \in Handles :
        /\ sockets[h].readyState = "CLOSING"
        /\ sockets' = onclose([sockets EXCEPT ![h].readyState = "CLOSED"], h)
        /\ lastOp' = [op |-> "event", h |-> Null]
        /\ UNCHANGED <<urlVars, createCalls, closedWhileConnecting>>

\* The connection fails (refused, network failure): the socket is closed, its
\* error event fires and then its close event.
TransportError ==
    \E h \in Handles :
        /\ sockets[h].readyState # "CLOSED"
        /\ sockets' =
             onclose(
               onerror([sockets EXCEPT ![h].readyState = "CLOSED",
                                       ![h].errorEvents = Append(@, ErrorEvent(h))],
                       h, ErrorEvent(h)),
               h)
        /\ lastOp' = [op |-> "event", h |-> Null]
        /\ UNCHANGED <<urlVars, createCalls, closedWhileConnecting>>

Next ==
    \/ CreateChatWebSocket
    \/ CloseWebSocket
    \/ TransportOpen
    \/ TransportMessage
    \/ PeerClose
    \/ TransportClosed
    \/ TransportError

Spec == Init /\ [][Next]_vars

----------------------------------------------------------------------------
(* Properties of the endpoint resolution (checked under SpecUrl).          *)

\* The hostnames the specification calls loopback.
LoopbackNames == {sLocalhost, sIp4Loopback, sIp6Loopback}

\* The call took the base-URL path: server side, or a loopback page.
OnBasePath == ~window.defined \/ window.location.hostname \in LoopbackNames

\* SERVER_BASE_URL is absent: no process, no env, or no such key.
BaseAbsent ==
    ~process.present \/ ~process.hasEnv \/ process.SERVER_BASE_URL = {}

ConfiguredValue == CHOOSE v \in process.SERVER_BASE_URL : TRUE

\* s without its first n characters.
Drop(s, n) == SubSeq(s, n + 1, Len(s))

\* C6: on a page whose hostname is not localhost, 127.0.0.1 or ::1 the
\* resolved URL is scheme + "//" + the page's host (port included) +
\* "/ws/chat", with scheme wss: for an https: page and ws: for every other
\* protocol, whatever SERVER_BASE_URL is.
C6_NonLoopbackUsesPageHost ==
    (resolved /\ window.defined /\ window.location.hostname \notin LoopbackNames)
    => url = (IF window.location.protocol = sHttps THEN sWss ELSE sWs)
             \o sSlashes \o window.location.host \o sWsChat

C6_Witness ==
    /\ resolved
    /\ window.defined
    /\ window.location.protocol = sHttps
    /\ window.location.host = sExample \o sColon \o sPort3000
    /\ process = EnvOf({sSecureApiBase})
    /\ url = sWss \o sSlashes \o sExample \o sColon \o sPort3000 \o sWsChat

SchemeEnd(s) ==
    IF \E i \in 1..Len(s) : s[i] = ":"
    THEN CHOOSE i \in 1..Len(s) : s[i] = ":" /\ \A j \in 1..(i - 1) : s[j] # ":"
    ELSE 0

\* The rewrite as C8 states it: wss for an https scheme, ws for every other.
SchemeRewrittenAsClaimed(base) ==
    (IF SubSeq(base, 1, SchemeEnd(base)) = sHttps THEN sWss ELSE sWs)
    \o Drop(base, SchemeEnd(base))

\* C8 as stated: on the base-URL path the resolved URL is the base URL with
\* its scheme rewritten to wss when it is https and to ws otherwise, followed
\* by "/ws/chat".
C8_Original ==
    (resolved /\ OnBasePath)
    => url = SchemeRewrittenAsClaimed(getServerBaseUrl(process)) \o sWsChat

\* C8 as amended: a base URL that begins with "https:" has that prefix
\* replaced by "wss:", one that begins with "http:" has it replaced by "ws:",
\* and every other base URL (one that is ws:// or wss:// already) is used
\* unchanged; "/ws/chat" follows. In particular https://api.example.com
\* yields wss://api.example.com/ws/chat.
C8_RewriteOnlyHttpSchemes ==
    (resolved /\ OnBasePath)
    => LET base == getServerBaseUrl(process)
       IN /\ StartsWith(base, sHttps) => url = sWss \o Drop(base, 6) \o sWsChat
          /\ (~StartsWith(base, sHttps) /\ StartsWith(base, sHttp))
             => url = sWs \o Drop(base, 5) \o sWsChat
          /\ (~StartsWith(base, sHttps) /\ ~StartsWith(base, sHttp))
             => url = base \o sWsChat
          /\ base = sSecureApiBase => url = sSecureApiEndpoint

C8_Witness ==
    /\ resolved
    /\ ~window.defined
    /\ process = EnvOf({sSecureApiBase})
    /\ url = sSecureApiEndpoint

\* C9 as stated: on the base-URL path an absent SERVER_BASE_URL resolves to
\* ws://localhost:8001/ws/chat, and a present one is the base that is used.
C9_Original ==
    (resolved /\ OnBasePath)
    => /\ BaseAbsent => url = sDefaultEndpoint
       /\ ~BaseAbsent => url = toWebSocketBaseUrl(ConfiguredValue) \o sWsChat

\* C9 as amended: an absent or empty SERVER_BASE_URL resolves to
\* ws://localhost:8001/ws/chat, and a present, non-empty one is the base
\* that is used.
C9_DefaultWhenAbsentOrEmpty ==
    (resolved /\ OnBasePath)
    => /\ (BaseAbsent \/ process.SERVER_BASE_URL = {sEmpty})
          => url = sDefaultEndpoint
       /\ (~BaseAbsent /\ process.SERVER_BASE_URL # {sEmpty})
          => url = toWebSocketBaseUrl(ConfiguredValue) \o sWsChat

C9_Witness ==
    /\ resolved
    /\ window.defined
    /\ window.location.hostname = sLocalhost
    /\ window.location.host = sLocalhost \o sColon \o sPort3000
    /\ process = NoEnv
    /\ url = sDefaultEndpoint

----------------------------------------------------------------------------
(* Properties of the socket lifecycle (checked under Spec).                *)

\* The number of brackets and braces open after the first i tokens.
OpenAt(tokens, i) ==
    Cardinality({j \in 1..i : tokens[j] \in {"{", "["}})
    - Cardinality({j \in 1..i : tokens[j] \in {"}", "]"}})

\* The property names of the object a JSON text denotes.
TopLevelKeys(tokens) ==
    {tokens[i] : i \in {j \in 2..(Len(tokens) - 2) :
                          /\ tokens[j - 1] = "\""
                          /\ tokens[j + 1] = "\""
                          /\ tokens[j + 2] = ":"
                          /\ OpenAt(tokens, j) = 1}}

\* The names of the properties of a request that hold a value.
DefinedKeys(request) ==
    {request[i].key : i \in {j \in DOMAIN request : request[j].kind # "undefined"}}

sMinimalJson ==
    <<"{", "\"", "repo_url", "\"", ":", "\"", "https://github.com/o/r", "\"", ",",
      "\"", "messages", "\"", ":", "[",
      "{", "\"", "role", "\"", ":", "\"", "user", "\"", ",",
      "\"", "content", "\"", ":", "\"", "hi", "\"", "}",
      "]", "}">>

\* C1: on every handle nothing is transmitted before the open event, one
\* message is transmitted when it fires, that message is the JSON
\* serialization of the request with exactly the request's properties, and
\* never more than one message is transmitted.
C1_SingleRequestOnOpen ==
    \A h \in Handles :
        /\ Len(sockets[h].sent) <= 1
        /\ sockets[h].openEvents = 0 => sockets[h].sent = <<>>
        /\ sockets[h].openEvents > 0
           => /\ sockets[h].sent = <<JSONstringify(sockets[h].request)>>
              /\ TopLevelKeys(sockets[h].sent[1]) = DefinedKeys(sockets[h].request)

C1_Witness ==
    \E h \in Handles :
        /\ sockets[h].request = RequestMinimal
        /\ sockets[h].openEvents = 1
        /\ sockets[h].sent = <<sMinimalJson>>
        /\ Len(sockets[h].delivered) = 2
        /\ sockets[h].readyState = "CLOSED"

\* C2: on every handle the arguments onMessage was invoked with are, in
\* order, exactly the frames the transport delivered.
C2_MessagesForwardedInOrder ==
    \A h \in Handles : sockets[h].onMessageArgs = sockets[h].delivered

C2_Witness ==
    \E h \in Handles :
        /\ sockets[h].delivered = <<"foo", "bar">>
        /\ sockets[h].onMessageArgs = <<"foo", "bar">>

\* C3: onClose has been invoked exactly once for every handle that is
\* closed, however it came to close, and never for a handle that is not.
C3_OnCloseOncePerClosedHandle ==
    \A h \in Handles :
        sockets[h].onCloseCalls = IF sockets[h].readyState = "CLOSED" THEN 1 ELSE 0

C3_Witness ==
    \E h \in Handles :
        /\ sockets[h].readyState = "CLOSED"
        /\ sockets[h].closeRequested = 1
        /\ sockets[h].errorEvents = <<>>
        /\ sockets[h].onCloseCalls = 1

\* The step is a call closeWebSocket(ws).
IsCloseCall(ws) == lastOp' = [op |-> "closeWebSocket", h |-> ws]

\* C4: a call closeWebSocket(ws) with ws null, connecting, closing or closed
\* changes nothing; with ws open it starts the closing handshake of ws and
\* does nothing else; and no handle ever has more than one closing handshake
\* started on it.
C4_CloseOnlyWhenOpen ==
    /\ [](\A h \in Handles : sockets[h].closeRequested <= 1)
    /\ [][\A ws \in {Null} \cup Handles :
            IsCloseCall(ws)
            => IF ws # Null /\ sockets[ws].readyState = "OPEN"
               THEN sockets' = [sockets EXCEPT ![ws].readyState = "CLOSING",
                                               ![ws].closeRequested = @ + 1]
               ELSE sockets' = sockets]_vars

C4_Witness ==
    \E h \in Handles :
        /\ lastOp = [op |-> "closeWebSocket", h |-> h]
        /\ sockets[h].readyState = "CLOSED"
        /\ sockets[h].closeRequested = 1

\* C5: onError is invoked with every error event of a handle, and there is
\* no reconnection and no retry: the sockets constructed are as many as the
\* calls of createChatWebSocket, only such a call constructs one, and a
\* handle that has had an error or is closed transmits nothing more.
C5_ErrorsReportedNoRetry ==
    /\ [](/\ Len(sockets) = createCalls
          /\ \A h \in Handles : sockets[h].onErrorArgs = sockets[h].errorEvents)
    /\ [][/\ lastOp'.op # "createChatWebSocket" => Len(sockets') = Len(sockets)
          /\ \A h \in Handles :
               (sockets[h].errorEvents # <<>> \/ sockets[h].readyState = "CLOSED")
               => /\ h \in 1..Len(sockets')
                  /\ sockets'[h].sent = sockets[h].sent]_vars

C5_Witness ==
    \E h \in Handles :
        /\ sockets[h].errorEvents = <<ErrorEvent(h)>>
        /\ sockets[h].onErrorArgs = <<ErrorEvent(h)>>
        /\ sockets[h].openEvents = 1
        /\ sockets[h].readyState = "CLOSED"
        /\ Len(sockets) = createCalls

\* C10: closeWebSocket on a connecting handle leaves it connecting; if that
\* handle opens afterwards the request is sent and the inbound frames are
\* forwarded as on any other handle; and it leaves the connecting and open
\* states only by a closeWebSocket call made while it is open or by an event
\* of the transport (peer close, failure).
C10_CloseWhileConnectingIsIgnored ==
    /\ [](\A h \in closedWhileConnecting :
            /\ sockets[h].openEvents > 0
               => sockets[h].sent = <<JSONstringify(sockets[h].request)>>
            /\ sockets[h].onMessageArgs = sockets[h].delivered)
    /\ [][\A h \in Handles :
            /\ (IsCloseCall(h) /\ sockets[h].readyState = "CONNECTING")
               => (h \in closedWhileConnecting' /\ sockets'[h] = sockets[h])
            /\ (/\ h \in closedWhileConnecting
                /\ sockets[h].readyState \in {"CONNECTING", "OPEN"}
                /\ sockets'[h].readyState \in {"CLOSING", "CLOSED"})
               => \/ IsCloseCall(h) /\ sockets[h].readyState = "OPEN"
                  \/ lastOp'.op = "event"]_vars

C10_Witness ==
    \E h \in closedWhileConnecting :
        /\ sockets[h].readyState = "OPEN"
        /\ sockets[h].sent = <<JSONstringify(sockets[h].request)>>
        /\ sockets[h].onMessageArgs = <<"foo", "bar">>
        /\ sockets[h].closeRequested = 0

====
